---- MODULE Spec2Model ----
(***************************************************************************)
(* Model of create-github-app-token-with-aws-kms: the entry script         *)
(* (src/lib/kms-auth.js:186-262), the orchestrator main() with its two     *)
(* p-retry wrapped lookup+exchange units (src/lib/main.js) and the AWS KMS *)
(* backed auth function (src/lib/kms-auth.js:1-184).                       *)
(*                                                                         *)
(* Strings that the code takes apart (the owner and repository names, the  *)
(* hosting coordinates, the installation id input) are sequences of        *)
(* one-character strings; opaque texts (messages, tokens, slugs) are TLA+  *)
(* strings.  One action is one run of the event loop: from the arrival of  *)
(* an awaited response up to the next await.                               *)
(***************************************************************************)
EXTENDS Integers, Sequences, FiniteSets, TLC

VARIABLES
    input,      \* the inputs read by the entry script (never change)
    pc,         \* "entry", "sign", "rest", "backoff" or "done"
    scope,      \* [path, parsedOwner, parsedRepositoryNames]
    retry,      \* p-retry's operation: [attempt, errors, rejected]
    pending,    \* the awaited call
    lookupData, \* response.data of this attempt's installation lookup
    log,        \* calls on the host: core.*, console.*
    net,        \* outbound calls: KMS Sign requests and REST requests
    authCalls,  \* the options of every auth({type: "installation"}) call
    result,     \* [authentication, installationId, appSlug, outcome, raised,
                \*  acquiredAt: the host calls made before the token arrived]
    kms         \* [clients, signs]: KMS clients constructed, Sign commands sent

vars == <<input, pc, scope, retry, pending, lookupData, log, net, authCalls, result, kms>>

----------------------------------------------------------------------------
(* Bounds of the model and the values the environment may supply.          *)

MaxRepos == 2
MaxIdLen == 2

Retries == 3

\* The 'repositories' input, parsed: a prefix of this list.
Chars(c) == <<c>>
RepositoryList == <<Chars("a"), Chars("b"), Chars("c"), Chars("d")>>
OwnerInputs == {<<>>, <<"o">>}
IdChars == {"0", "7", "z"}
GITHUB_REPOSITORY == <<"h", "/", "w">>
GITHUB_REPOSITORY_OWNER == <<"h">>
InstallationIds == {7, 8}
Tokens == {"ghs_A", "ghs_B"}
HttpFailures ==
    { [status |-> 404, message |-> "Not Found"],
      [status |-> 500, message |-> "Server Error"],
      [status |-> 503, message |-> "Service Unavailable"] }

SeqsUpTo(S, n) == UNION { [1..k -> S] : k \in 0..n }

\* An optional value: <<>> is undefined, <<x>> is x.
Undefined == <<>>
Some(x) == <<x>>

None == [none |-> TRUE]

----------------------------------------------------------------------------
(* Conversions.                                                            *)

NaN == 0 - 1

DigitValue(c) ==
    CASE c = "0" -> 0 [] c = "1" -> 1 [] c = "2" -> 2 [] c = "3" -> 3
      [] c = "4" -> 4 [] c = "5" -> 5 [] c = "6" -> 6 [] c = "7" -> 7
      [] c = "8" -> 8 [] c = "9" -> 9 [] OTHER -> NaN

RECURSIVE Decimal(_)
Decimal(s) ==
    IF s = <<>> THEN 0
    ELSE Decimal(SubSeq(s, 1, Len(s) - 1)) * 10 + DigitValue(s[Len(s)])

\* Number(string) on the strings of the model: decimal digits, or not a number.
Number(s) ==
    IF \A i \in 1..Len(s) : DigitValue(s[i]) # NaN THEN Decimal(s) ELSE NaN

\* JavaScript truthiness of a number: 0 and NaN are falsy.
Truthy(n) == n # 0 /\ n # NaN

RECURSIVE Split(_, _)
\* String.prototype.split(separator) for a one-character separator.
Split(s, sep) ==
    IF \A i \in 1..Len(s) : s[i] # sep THEN <<s>>
    ELSE LET k == CHOOSE i \in 1..Len(s) :
                      s[i] = sep /\ \A j \in 1..(i - 1) : s[j] # sep
         IN  <<SubSeq(s, 1, k - 1)>> \o Split(SubSeq(s, k + 1, Len(s)), sep)

----------------------------------------------------------------------------
(* The inputs and the state the operators below transform.                 *)

\* A permissions mapping is the set of its "name:level" entries.
\* The debug switch is read by the KMS signer only: it is varied with it.
Inputs ==
    { in \in [ owner          : OwnerInputs,
               repositories   : { SubSeq(RepositoryList, 1, k) : k \in 0..MaxRepos },
               installationId : SeqsUpTo(IdChars, MaxIdLen),
               skipTokenRevoke: BOOLEAN,
               privateKey     : BOOLEAN,   \* whether 'private-key' is non-empty
               awsKmsArn      : BOOLEAN,   \* whether 'aws-kms-arn' is non-empty
               debug          : BOOLEAN,   \* ACTIONS_STEP_DEBUG / RUNNER_DEBUG
               permissions    : {Undefined, Some({"issues:write"})} ] :
          in.debug => in.awsKmsArn }

LOOKUP_OWNER == "GET /users/{username}/installation"
LOOKUP_REPO == "GET /repos/{owner}/{repo}/installation"
EXCHANGE == "POST /app/installations/{installation_id}/access_tokens"
KMS_SIGN == "kms:Sign"

InitialState ==
    [ pc         |-> "entry",
      scope      |-> [path |-> "none", parsedOwner |-> <<>>,
                      parsedRepositoryNames |-> <<>>],
      retry      |-> [attempt |-> 0, errors |-> <<>>, rejected |-> Undefined],
      pending    |-> None,
      lookupData |-> Undefined,
      log        |-> <<>>,
      net        |-> <<>>,
      authCalls  |-> <<>>,
      result     |-> [authentication |-> Undefined, installationId |-> Undefined,
                      appSlug |-> Undefined, outcome |-> "running",
                      raised |-> Undefined, acquiredAt |-> 0],
      kms        |-> [clients |-> 0, signs |-> 0] ]

\* The values interpolated into a message or handed to the host: an opaque
\* text, a name (a sequence of characters) or a number.
Text(x) == [kind |-> "text", text |-> x, name |-> <<>>, num |-> 0]
Name(x) == [kind |-> "name", text |-> "", name |-> x, num |-> 0]
Num(x) == [kind |-> "num", text |-> "", name |-> <<>>, num |-> x]
Assertion(jwt) == [kind |-> "jwt", text |-> "", name |-> <<>>, num |-> jwt.serial]

\* A call on the host: core.info, core.setSecret, console.log, ...
HostCall(s, op, text, args) ==
    [s EXCEPT !.log = Append(@, [op |-> op, text |-> text, args |-> args])]

Info(s, text, args) == HostCall(s, "core.info", text, args)

\* new Error(message), or a RequestError carrying the response status.  Two
\* failures with the same status and message are still two error objects:
\* "at" is the attempt that threw this one.
Failure(status, message, stage) ==
    [status |-> status, message |-> message, stage |-> stage, at |-> 0]

----------------------------------------------------------------------------
(* The outermost boundary and the emission of the result.                  *)

CatchMutant(s, e) ==
    LET s1 == HostCall(s, "console.error", "error", <<Text(e.message)>>)
    IN  [s1 EXCEPT !.pc = "done", !.pending = None,
                   !.result.outcome = "failed", !.result.raised = Some(e)]

\* main(...).catch((error) => { console.error(error); core.setFailed(error.message) })
Catch(s, e) ==
    LET s1 == HostCall(s, "console.error", "error", <<Text(e.message)>>)
        s2 == HostCall(s1, "core.setFailed", "message", <<Text(e.message)>>)
    IN  [s2 EXCEPT !.pc = "done", !.pending = None,
                   !.result.outcome = "failed", !.result.raised = Some(e)]

SaveStateMutant(in, s) ==
    LET a  == s.result.authentication[1]
        s1 == HostCall(s, "core.saveState", "token", <<Text(a.token)>>)
    IN  HostCall(s1, "core.saveState", "expiresAt", <<Text(a.expiresAt)>>)

\* if (!skipTokenRevoke) { core.saveState("token", ...); core.saveState("expiresAt", ...) }
SaveState(in, s) ==
    IF ~in.skipTokenRevoke
    THEN LET a  == s.result.authentication[1]
             s1 == HostCall(s, "core.saveState", "token", <<Text(a.token)>>)
         IN  HostCall(s1, "core.saveState", "expiresAt", <<Text(a.expiresAt)>>)
    ELSE s

SetOutputs(s) ==
    LET a  == s.result.authentication[1]
        s1 == HostCall(s, "core.setOutput", "token", <<Text(a.token)>>)
        s2 == HostCall(s1, "core.setOutput", "installation-id", <<Num(s.result.installationId[1])>>)
    IN  HostCall(s2, "core.setOutput", "app-slug", <<Text(s.result.appSlug[1])>>)

EmitWithTraceMutant(in, s) ==
    LET a  == s.result.authentication[1]
        s0 == HostCall(s, "core.setSecret", "secret", <<Text(a.token)>>)
        s1 == Info(s0, "Created token", <<Text(a.token)>>)
        s2 == SetOutputs(s1)
        s3 == SaveState(in, s2)
    IN  [s3 EXCEPT !.pc = "done", !.pending = None, !.result.outcome = "success"]

EmitMutant(in, s) ==
    LET a  == s.result.authentication[1]
        s1 == SetOutputs(s)
        s2 == HostCall(s1, "core.setSecret", "secret", <<Text(a.token)>>)
        s3 == SaveState(in, s2)
    IN  [s3 EXCEPT !.pc = "done", !.pending = None, !.result.outcome = "success"]

\* The tail of main(): setSecret, the three outputs, the saved state.
Emit(in, s) ==
    LET a  == s.result.authentication[1]
        s1 == HostCall(s, "core.setSecret", "secret", <<Text(a.token)>>)
        s2 == SetOutputs(s1)
        s3 == SaveState(in, s2)
    IN  [s3 EXCEPT !.pc = "done", !.pending = None, !.result.outcome = "success"]

----------------------------------------------------------------------------
(* p-retry around one unit "look the installation up, then exchange".      *)

\* shouldRetry: (error) => error.status >= 500; an absent status compares false.
ShouldRetryMutant(e) == TRUE

ShouldRetryAbsentStatusMutant(e) == e.status = Undefined \/ e.status[1] >= 500

ShouldRetry(e) == e.status # Undefined /\ e.status[1] >= 500

\* How often the message of errs[i] occurs in errs[1..i].
CountUpTo(errs, i) == Cardinality({ j \in 1..i : errs[j].message = errs[i].message })

RECURSIVE MainErrorUpTo(_, _)
\* retry's operation.mainError(): the error whose message occurred most often,
\* the latest of them when several occurred equally often.
MainErrorUpTo(errs, i) ==
    IF i = 0 THEN [error |-> Undefined, count |-> 0]
    ELSE LET prev == MainErrorUpTo(errs, i - 1)
         IN  IF CountUpTo(errs, i) >= prev.count
             THEN [error |-> Some(errs[i]), count |-> CountUpTo(errs, i)]
             ELSE prev

MainErrorMutant(errs) == errs[1]

MainError(errs) == MainErrorUpTo(errs, Len(errs)).error[1]

\* The failed attempt's report: onFailedAttempt of the path taken.
OnFailedAttempt(s, e) ==
    IF s.scope.path = "repository"
    THEN Info(s, "Failed to create token for repositories (attempt): message",
              [i \in 1..Len(s.scope.parsedRepositoryNames) |->
                   Name(s.scope.parsedRepositoryNames[i])] \o
              <<Num(s.retry.attempt), Text(e.message)>>)
    ELSE Info(s, "Failed to create token for owner (attempt): message",
              <<Name(s.scope.parsedOwner), Num(s.retry.attempt), Text(e.message)>>)

RetryableMutant(s, e) == ShouldRetry(e)

\* The predicate p-retry consults: the repository path passes shouldRetry, the
\* owner path passes none and p-retry's default retries every failure.
Retryable(s, e) == IF s.scope.path = "repository" THEN ShouldRetry(e) ELSE TRUE

OnAttemptErrorMutant(s, e) ==
    LET retryable == Retryable(s, e)
        rejected  == IF retryable THEN s.retry.rejected ELSE Some(e)
        s1        == IF retryable THEN OnFailedAttempt(s, e) ELSE s
        errs      == Append(s.retry.errors, e)
        s2        == [s1 EXCEPT !.retry.errors = errs, !.retry.rejected = rejected,
                                !.pending = None]
    IN  IF retryable /\ Len(errs) <= Retries
        THEN [s2 EXCEPT !.pc = "backoff"]
        ELSE Catch(s2, IF rejected # Undefined THEN rejected[1] ELSE MainError(errs))

\* p-retry's handling of an attempt that threw e.  A failure the predicate
\* refuses stops the operation and rejects with that failure; the report is made
\* in either case; then operation.retry schedules the next attempt while retries
\* are left, and otherwise the rejection is operation.mainError().
OnAttemptError(s, e) ==
    LET retryable == Retryable(s, e)
        rejected  == IF retryable THEN s.retry.rejected ELSE Some(e)
        s1        == OnFailedAttempt(s, e)
        errs      == Append(s.retry.errors, e)
        s2        == [s1 EXCEPT !.retry.errors = errs, !.retry.rejected = rejected,
                                !.pending = None]
    IN  IF retryable /\ Len(errs) <= Retries
        THEN [s2 EXCEPT !.pc = "backoff"]
        ELSE Catch(s2, IF rejected # Undefined THEN rejected[1] ELSE MainError(errs))

ThrowMutant(s, e0) == OnAttemptError(s, [e0 EXCEPT !.at = s.retry.attempt])

\* An error thrown inside auth, the hook or a request: on the direct path it is
\* main()'s rejection, on the other two it fails the attempt.
Throw(s, e0) ==
    LET e == [e0 EXCEPT !.at = s.retry.attempt]
    IN  IF s.scope.path = "direct" THEN Catch(s, e) ELSE OnAttemptError(s, e)

----------------------------------------------------------------------------
(* The auth function: createKmsAppAuth, or createAppAuth with a private key.*)

\* request(route, ...): the call leaves and its response is awaited.
SendRest(s, call) ==
    [s EXCEPT !.pc = "rest", !.pending = call, !.net = Append(@, call)]

\* createKmsSignedJwt up to its await: the signer sends one SignCommand.
StartSign(s, call) ==
    [s EXCEPT !.pc = "sign", !.pending = call,
              !.kms.signs = @ + 1,
              !.net = Append(@, [route |-> KMS_SIGN,
                                 args |-> [serial |-> s.kms.signs + 1],
                                 bearer |-> Undefined])]

\* The assertion a call carries: the one built by the serial-th Sign command,
\* or the one the private-key library signs locally.
KmsJwt(serial) == [signer |-> "kms", serial |-> serial]
LocalJwt == [signer |-> "local", serial |-> 0]

AuthenticatedMutant(in, s, call) ==
    IF in.awsKmsArn
    THEN IF s.kms.signs = 0
         THEN StartSign(s, call)
         ELSE SendRest(s, [call EXCEPT !.bearer = Some(KmsJwt(s.kms.signs))])
    ELSE SendRest(s, [call EXCEPT !.bearer = Some(LocalJwt)])

\* An authenticated call: with KMS a fresh assertion is signed first.
Authenticated(in, s, call) ==
    IF in.awsKmsArn
    THEN StartSign(s, call)
    ELSE SendRest(s, [call EXCEPT !.bearer = Some(LocalJwt)])

\* The seven console.log debug lines of createKmsSignedJwt.
DebugLog(in, s, jwt) ==
    IF in.debug
    THEN LET line(u, text) == HostCall(u, "console.log", text, <<>>)
             s1 == line(s, "::debug::JWT Header JSON")
             s2 == line(s1, "::debug::JWT Payload JSON")
             s3 == line(s2, "::debug::JWT Header (base64url)")
             s4 == line(s3, "::debug::JWT Payload (base64url)")
             s5 == line(s4, "::debug::JWT Signature Input")
             s6 == line(s5, "::debug::JWT Signature (base64url)")
         IN  HostCall(s6, "console.log", "::debug::Complete JWT", <<Assertion(jwt)>>)
    ELSE s

\* The signer's continuation: no signature is a thrown Error, otherwise the
\* assertion is complete and the awaited call goes out with it as bearer.
SignReturned(in, s, hasSignature) ==
    IF ~hasSignature
    THEN Throw(s, Failure(Undefined, "KMS signing failed: no signature returned", "sign"))
    ELSE LET jwt == KmsJwt(s.kms.signs)
         IN  SendRest(DebugLog(in, s, jwt), [s.pending EXCEPT !.bearer = Some(jwt)])

\* The access-token request: repositories only for a non-empty list,
\* permissions whenever a mapping is given (any object is truthy).
ExchangeBody(opts) ==
    [ installation_id |-> opts.installationId,
      repositories    |-> IF opts.repositoryNames # Undefined
                             /\ Len(opts.repositoryNames[1]) > 0
                          THEN opts.repositoryNames ELSE Undefined,
      permissions     |-> opts.permissions ]

AuthInstallationMutant(in, s, opts) ==
    Authenticated(in, [s EXCEPT !.authCalls = Append(@, opts)],
                  [route |-> EXCHANGE, args |-> ExchangeBody(opts), bearer |-> Undefined])

\* auth({type: "installation", installationId, repositoryNames, permissions})
AuthInstallation(in, s, opts) ==
    LET s1 == [s EXCEPT !.authCalls = Append(@, opts)]
    IN  IF ~Truthy(opts.installationId)
        THEN Throw(s1, Failure(Undefined,
                   "installationId is required for installation authentication", "auth"))
        ELSE Authenticated(in, s1, [route |-> EXCHANGE, args |-> ExchangeBody(opts),
                                    bearer |-> Undefined])

----------------------------------------------------------------------------
(* main().                                                                 *)

GetTokenFromOwner(in, s) ==
    Authenticated(in, s, [route |-> LOOKUP_OWNER,
                          args |-> [username |-> s.scope.parsedOwner],
                          bearer |-> Undefined])

GetTokenFromRepositoryMutant(in, s) ==
    Authenticated(in, s, [route |-> LOOKUP_REPO,
                          args |-> [owner |-> s.scope.parsedOwner,
                                    repo |-> s.scope.parsedRepositoryNames[
                                                 Len(s.scope.parsedRepositoryNames)]],
                          bearer |-> Undefined])

GetTokenFromRepository(in, s) ==
    Authenticated(in, s, [route |-> LOOKUP_REPO,
                          args |-> [owner |-> s.scope.parsedOwner,
                                    repo |-> s.scope.parsedRepositoryNames[1]],
                          bearer |-> Undefined])

\* p-retry calls the unit: attempt numbers count from 1.
Attempt(in, s) ==
    LET s1 == [s EXCEPT !.retry.attempt = @ + 1, !.lookupData = Undefined]
    IN  IF s.scope.path = "repository"
        THEN GetTokenFromRepository(in, s1)
        ELSE GetTokenFromOwner(in, s1)

\* The lookup's response arrived: the unit goes on to the exchange.
LookupReturned(in, s, data) ==
    AuthInstallation(in, [s EXCEPT !.lookupData = Some(data)],
        [ installationId  |-> data.id,
          repositoryNames |-> IF s.scope.path = "repository"
                              THEN Some(s.scope.parsedRepositoryNames)
                              ELSE Undefined,
          permissions     |-> in.permissions ])

ExchangeReturnedMutant(in, s, data) ==
    LET authentication == [token |-> data.token, expiresAt |-> data.expires_at]
        direct == s.scope.path = "direct"
    IN  Emit(in, [s EXCEPT
            !.result.authentication = Some(authentication),
            !.result.acquiredAt = Len(s.log),
            !.result.installationId = IF direct THEN @
                                      ELSE Some(s.authCalls[1].installationId),
            !.result.appSlug = IF direct THEN Some("github-app")
                               ELSE Some(s.lookupData[1].app_slug)])

\* The exchange's response arrived.  On the direct path main() goes on with its
\* own installationId and the placeholder slug; on the other two the unit
\* returns { authentication, installationId, appSlug } from the lookup's data.
\* Then the tail of main().
ExchangeReturned(in, s, data) ==
    LET authentication == [token |-> data.token, expiresAt |-> data.expires_at]
        direct == s.scope.path = "direct"
    IN  Emit(in, [s EXCEPT
            !.result.authentication = Some(authentication),
            !.result.acquiredAt = Len(s.log),
            !.result.installationId = IF direct THEN @ ELSE Some(s.lookupData[1].id),
            !.result.appSlug = IF direct THEN Some("github-app")
                               ELSE Some(s.lookupData[1].app_slug)])

\* The four independent ifs at the head of main().
Classify(in, s) ==
    LET owner == in.owner
        repositories == in.repositories
        hosting == Split(GITHUB_REPOSITORY, "/")
        s1 == IF owner = <<>> /\ Len(repositories) = 0
              THEN Info([s EXCEPT !.scope.parsedOwner = hosting[1],
                                  !.scope.parsedRepositoryNames = <<hosting[2]>>],
                        "Inputs 'owner' and 'repositories' are not set.",
                        <<Name(hosting[1]), Name(hosting[2])>>)
              ELSE s
        s2 == IF owner # <<>> /\ Len(repositories) = 0
              THEN Info([s1 EXCEPT !.scope.parsedOwner = owner],
                        "Input 'repositories' is not set.", <<Name(owner)>>)
              ELSE s1
        s3 == IF owner = <<>> /\ Len(repositories) > 0
              THEN Info([s2 EXCEPT !.scope.parsedOwner = GITHUB_REPOSITORY_OWNER,
                                   !.scope.parsedRepositoryNames = repositories],
                        "No 'owner' input provided.",
                        <<Name(GITHUB_REPOSITORY_OWNER)>> \o
                        [i \in 1..Len(repositories) |-> Name(repositories[i])])
              ELSE s2
        s4 == IF owner # <<>> /\ Len(repositories) > 0
              THEN Info([s3 EXCEPT !.scope.parsedOwner = owner,
                                   !.scope.parsedRepositoryNames = repositories],
                        "Inputs 'owner' and 'repositories' are set.",
                        [i \in 1..Len(repositories) |-> Name(repositories[i])])
              ELSE s3
    IN  s4

\* repositoryNames: parsedRepositoryNames.length > 0 ? parsedRepositoryNames : undefined
DirectScoping(in, s) ==
    IF Len(s.scope.parsedRepositoryNames) > 0
    THEN Some(s.scope.parsedRepositoryNames) ELSE Undefined

DispatchOwnerFirstMutant(in, s) ==
    IF in.installationId # <<>> THEN "direct"
    ELSE IF in.owner # <<>> THEN "owner"
    ELSE IF Len(s.scope.parsedRepositoryNames) > 0 THEN "repository"
    ELSE "owner"

DispatchMutant(in, s) ==
    IF Len(s.scope.parsedRepositoryNames) > 0 THEN "repository"
    ELSE IF in.installationId # <<>> THEN "direct"
    ELSE "owner"

\* The if / else-if / else chain of main() after the classification.
Dispatch(in, s) ==
    IF in.installationId # <<>> THEN "direct"
    ELSE IF Len(s.scope.parsedRepositoryNames) > 0 THEN "repository"
    ELSE "owner"

\* main() up to its first await.
Main(in, s) ==
    LET s1 == Classify(in, s)
        s2 == [s1 EXCEPT !.scope.path = Dispatch(in, s1)]
    IN  IF s2.scope.path = "direct"
        THEN LET s3 == Info(s2, "Using provided installation ID", <<Name(in.installationId)>>)
                 installationId == Number(in.installationId)
             IN  AuthInstallation(in,
                     [s3 EXCEPT !.result.installationId = Some(installationId)],
                     [ installationId  |-> installationId,
                       repositoryNames |-> DirectScoping(in, s3),
                       permissions     |-> in.permissions ])
        ELSE Attempt(in, s2)

\* A top-level throw of the entry script: nothing catches it.
Uncaught(s, message) ==
    [s EXCEPT !.pc = "done", !.result.outcome = "uncaught",
              !.result.raised = Some(Failure(Undefined, message, "config"))]

\* The entry script: the validation of the signing inputs, the auth function
\* (createKmsAppAuth constructs the signer and its KMS client), then main().
EntryScript(in, s) ==
    IF ~in.privateKey /\ ~in.awsKmsArn
    THEN Uncaught(s, "Either 'private-key' or 'aws-kms-arn' must be provided")
    ELSE IF in.privateKey /\ in.awsKmsArn
    THEN Uncaught(s, "Only one of 'private-key' or 'aws-kms-arn' should be provided")
    ELSE IF in.awsKmsArn
    THEN Main(in, [s EXCEPT !.kms.clients = @ + 1])
    ELSE Main(in, s)

----------------------------------------------------------------------------
(* The state machine.                                                      *)

cur ==
    [ pc |-> pc, scope |-> scope, retry |-> retry, pending |-> pending,
      lookupData |-> lookupData, log |-> log, net |-> net,
      authCalls |-> authCalls, result |-> result, kms |-> kms ]

Becomes(s) ==
    /\ pc' = s.pc
    /\ scope' = s.scope
    /\ retry' = s.retry
    /\ pending' = s.pending
    /\ lookupData' = s.lookupData
    /\ log' = s.log
    /\ net' = s.net
    /\ authCalls' = s.authCalls
    /\ result' = s.result
    /\ kms' = s.kms
    /\ UNCHANGED input

Init ==
    /\ input \in Inputs
    /\ pc = InitialState.pc
    /\ scope = InitialState.scope
    /\ retry = InitialState.retry
    /\ pending = InitialState.pending
    /\ lookupData = InitialState.lookupData
    /\ log = InitialState.log
    /\ net = InitialState.net
    /\ authCalls = InitialState.authCalls
    /\ result = InitialState.result
    /\ kms = InitialState.kms

\* The entry script runs, and main() with it up to the first await.
Start ==
    /\ pc = "entry"
    /\ Becomes(EntryScript(input, cur))

\* KMS answers a Sign command, with a signature or without one.
KmsSignReturn ==
    /\ pc = "sign"
    /\ \E hasSignature \in BOOLEAN : Becomes(SignReturned(input, cur, hasSignature))

\* The installation lookup is answered.
LookupReturn ==
    /\ pc = "rest"
    /\ pending.route \in {LOOKUP_OWNER, LOOKUP_REPO}
    /\ \/ \E id \in InstallationIds :
             Becomes(LookupReturned(input, cur, [id |-> id, app_slug |-> "my-app"]))
       \/ \E f \in HttpFailures :
             Becomes(Throw(cur, Failure(Some(f.status), f.message, "lookup")))

\* The access-token request is answered.
ExchangeReturn ==
    /\ pc = "rest"
    /\ pending.route = EXCHANGE
    /\ \/ \E token \in Tokens :
             Becomes(ExchangeReturned(input, cur,
                         [token |-> token, expires_at |-> "2026-01-01T00:00:00Z"]))
       \/ \E f \in HttpFailures :
             Becomes(Throw(cur, Failure(Some(f.status), f.message, "exchange")))

\* p-retry's timer fires: the unit is attempted again.
RetryTimer ==
    /\ pc = "backoff"
    /\ Becomes(Attempt(input, cur))

Next == Start \/ KmsSignReturn \/ LookupReturn \/ ExchangeReturn \/ RetryTimer

Spec == Init /\ [][Next]_vars

----------------------------------------------------------------------------
(* What the claims speak of.                                               *)

\* main() was called: the signing inputs passed the entry script's validation.
MainStarted == pc # "entry" /\ result.outcome # "uncaught"

Provided == input.installationId # <<>>

Lookups == { i \in DOMAIN net : net[i].route \in {LOOKUP_OWNER, LOOKUP_REPO} }
Exchanges == { i \in DOMAIN net : net[i].route = EXCHANGE }

HostCalls(op, text) == { i \in DOMAIN log : log[i].op = op /\ log[i].text = text }

Succeeded == pc = "done" /\ result.outcome = "success"
Failed == pc = "done" /\ result.outcome = "failed"

CarriesServerStatus(e) == e.status # Undefined /\ e.status[1] >= 500

\* C1: with installationId provided, whatever owner and repositories are, no
\* installation lookup is ever requested, auth is called once with the numeric
\* value of the input, every access-token request names that installation, and
\* the outputs are that number and the placeholder slug "github-app".
C1_ProvidedIdSkipsLookup ==
    (MainStarted /\ Provided) =>
        /\ Lookups = {}
        /\ Len(authCalls) = 1
        /\ authCalls[1].installationId = Number(input.installationId)
        /\ \A i \in Exchanges :
               net[i].args.installation_id = Number(input.installationId)
        /\ \A i \in HostCalls("core.setOutput", "installation-id") :
               log[i].args = <<Num(Number(input.installationId))>>
        /\ \A i \in HostCalls("core.setOutput", "app-slug") :
               log[i].args = <<Text("github-app")>>
        /\ Succeeded => HostCalls("core.setOutput", "app-slug") # {}

C1_Witness ==
    /\ Succeeded /\ Provided
    /\ input.owner # <<>> /\ Len(input.repositories) = 2
    /\ Number(input.installationId) = 70
    /\ Lookups = {} /\ Exchanges # {}
    /\ HostCalls("core.setOutput", "app-slug") # {}

\* C2: without installationId the resolved owner and repositories follow the
\* table (hosting repository; owner alone; hosting owner with the repositories;
\* owner with the repositories), exactly one of the four cases reports, and the
\* repository lookup is used exactly when the resolved list is non-empty.
C2_ScopeTable ==
    (MainStarted /\ ~Provided) =>
        LET o == input.owner
            r == input.repositories
            hostOwner == Chars("h")
            hostRepo == Chars("w")
            reports == { i \in DOMAIN log : log[i].text \in
                            { "Inputs 'owner' and 'repositories' are not set.",
                              "Input 'repositories' is not set.",
                              "No 'owner' input provided.",
                              "Inputs 'owner' and 'repositories' are set." } }
        IN  /\ (o = <<>> /\ r = <<>>) =>
                   /\ scope.parsedOwner = hostOwner
                   /\ scope.parsedRepositoryNames = <<hostRepo>>
            /\ (o # <<>> /\ r = <<>>) =>
                   /\ scope.parsedOwner = o
                   /\ scope.parsedRepositoryNames = <<>>
                   /\ scope.path = "owner"
            /\ (o = <<>> /\ r # <<>>) =>
                   /\ scope.parsedOwner = hostOwner
                   /\ scope.parsedRepositoryNames = r
            /\ (o # <<>> /\ r # <<>>) =>
                   /\ scope.parsedOwner = o
                   /\ scope.parsedRepositoryNames = r
            /\ Cardinality(reports) = 1
            /\ scope.path = IF scope.parsedRepositoryNames # <<>>
                            THEN "repository" ELSE "owner"
            /\ \A i \in Lookups :
                   net[i].route = IF scope.parsedRepositoryNames # <<>>
                                  THEN LOOKUP_REPO ELSE LOOKUP_OWNER

C2_Witness ==
    /\ MainStarted /\ ~Provided
    /\ input.owner = <<>> /\ input.repositories = <<>>
    /\ scope.parsedOwner = Chars("h")
    /\ scope.parsedRepositoryNames = <<Chars("w")>>
    /\ \E i \in Lookups : net[i].route = LOOKUP_REPO /\ net[i].args.repo = Chars("w")

\* C3 (as claimed): with installationId provided, the repository scoping handed
\* to the exchange is the 'repositories' input when it is non-empty and absent
\* when that input is empty, whatever the owner.
C3_ScopingIsRepositoriesInput ==
    (MainStarted /\ Provided) =>
        \A i \in DOMAIN authCalls :
            authCalls[i].repositoryNames =
                IF Len(input.repositories) > 0
                THEN Some(input.repositories) ELSE Undefined

\* C4: on the repository path a failure without a status of 500 or more ends
\* the run: no attempt follows it (so it can only be the last failure), the
\* attempts made are the failures seen, nothing is pending, and main() rejects
\* with that very failure; a first such failure leaves exactly one attempt.
C4_ClientFailureIsTerminal ==
    scope.path = "repository" =>
        LET errs == retry.errors
            n == Len(errs)
        IN  /\ \A i \in 1..(n - 1) : CarriesServerStatus(errs[i])
            /\ (n > 0 /\ ~CarriesServerStatus(errs[n])) =>
                   /\ Failed
                   /\ retry.attempt = n
                   /\ result.raised = Some(errs[n])
                   /\ errs[n].at = n
                   /\ Cardinality(Lookups) <= n
                   /\ Cardinality(Exchanges) <= Cardinality(Lookups)

C4_Witness ==
    /\ scope.path = "repository" /\ Failed
    /\ Len(retry.errors) = 1 /\ retry.attempt = 1
    /\ retry.errors[1].status = Some(404)
    /\ retry.errors[1].stage = "exchange"
    /\ Cardinality(Lookups) = 1 /\ Cardinality(Exchanges) = 1
    /\ result.raised = Some(retry.errors[1])

\* How often the message m occurs among the failures errs.
Occurrences(errs, m) == Cardinality({ j \in DOMAIN errs : errs[j].message = m })

\* errs[i] is the latest of the failures whose message occurred most often.
LatestMostFrequent(errs, i) ==
    /\ i \in DOMAIN errs
    /\ \A j \in DOMAIN errs :
           Occurrences(errs, errs[j].message) <= Occurrences(errs, errs[i].message)
    /\ \A j \in DOMAIN errs :
           j > i => Occurrences(errs, errs[j].message) < Occurrences(errs, errs[i].message)

TokenOutputs == { log[i].args[1].text : i \in HostCalls("core.setOutput", "token") }

\* C5 (as claimed): on the repository path, when all four attempts fail the
\* failure of the last attempt is the one re-raised.
C5_ExhaustionRaisesLastFailure ==
    (scope.path = "repository" /\ Failed /\ Len(retry.errors) = Retries + 1) =>
        result.raised = Some(retry.errors[Retries + 1])

\* C5 (amended): on the repository path k failures with status >= 500 are
\* followed by attempt k+1 up to 4 attempts; a success on attempt k+1 <= 4 is
\* the result of main(); after a 4th failure no 5th attempt is made, and when
\* that failure too carries status >= 500 the failure re-raised is the latest
\* of those whose message occurred most often over the four attempts.
C5_BoundedRetryRaisesMainError ==
    scope.path = "repository" =>
        LET errs == retry.errors
            n == Len(errs)
        IN  /\ retry.attempt <= Retries + 1
            /\ n <= retry.attempt /\ retry.attempt <= n + 1
            /\ pc = "backoff" => (retry.attempt = n /\ n <= Retries
                                  /\ CarriesServerStatus(errs[n]))
            /\ (n > 0 /\ n <= Retries /\ CarriesServerStatus(errs[n])) => ~Failed
            /\ Succeeded =>
                   /\ retry.attempt = n + 1
                   /\ \A i \in 1..n : CarriesServerStatus(errs[i])
                   /\ TokenOutputs = {result.authentication[1].token}
            /\ (Failed /\ n = Retries + 1 /\ CarriesServerStatus(errs[n])) =>
                   /\ retry.attempt = Retries + 1
                   /\ \E i \in 1..n : /\ LatestMostFrequent(errs, i)
                                      /\ result.raised = Some(errs[i])
                                      /\ errs[i].at = i

C5_Witness ==
    /\ scope.path = "repository" /\ Failed
    /\ Len(retry.errors) = Retries + 1
    /\ \A i \in 1..3 : retry.errors[i].status = Some(500)
    /\ retry.errors[4].status = Some(503)
    /\ result.raised = Some(retry.errors[3])

\* C6 (as claimed): on the owner path every failure is retried up to 4
\* attempts, and after the 4th failed attempt the last failure is re-raised.
C6_OwnerExhaustionRaisesLastFailure ==
    (scope.path = "owner" /\ Failed) =>
        /\ Len(retry.errors) = Retries + 1
        /\ result.raised = Some(retry.errors[Retries + 1])

\* C6 (amended): on the owner path every failure of the unit, with a 4xx
\* status or without any status included, is followed by another attempt until
\* 4 attempts have failed; main() fails only then, and the failure re-raised is
\* the latest of those whose message occurred most often over the four.
C6_OwnerRetriesEveryFailure ==
    scope.path = "owner" =>
        LET errs == retry.errors
            n == Len(errs)
        IN  /\ retry.attempt <= Retries + 1
            /\ n <= retry.attempt /\ retry.attempt <= n + 1
            /\ (n > 0 /\ n <= Retries) => ~Failed
            /\ (n > 0 /\ n <= Retries /\ retry.attempt = n) => pc = "backoff"
            /\ Failed =>
                   /\ n = Retries + 1 /\ retry.attempt = Retries + 1
                   /\ \E i \in 1..n : /\ LatestMostFrequent(errs, i)
                                      /\ result.raised = Some(errs[i])
                                      /\ errs[i].at = i

C6_Witness ==
    /\ scope.path = "owner" /\ Failed
    /\ Len(retry.errors) = Retries + 1
    /\ retry.errors[1].status = Some(404)
    /\ retry.errors[2].status = Some(404)
    /\ retry.errors[3].status = Undefined
    /\ retry.errors[4].status = Some(503)
    /\ result.raised = Some(retry.errors[2])

\* The host call is handed the text x.
Mentions(entry, x) ==
    \E k \in DOMAIN entry.args : entry.args[k].kind = "text" /\ entry.args[k].text = x

\* C7: the first host call after the token arrived registers it as a secret,
\* and every output or saved state holding the token comes after the setSecret
\* of that same token.
C7_SecretRegisteredFirst ==
    /\ result.authentication # Undefined =>
           /\ Len(log) > result.acquiredAt
           /\ log[result.acquiredAt + 1].op = "core.setSecret"
           /\ log[result.acquiredAt + 1].args = <<Text(result.authentication[1].token)>>
    /\ \A i \in HostCalls("core.setOutput", "token") \cup HostCalls("core.saveState", "token") :
           \E j \in 1..(i - 1) : log[j].op = "core.setSecret" /\ log[j].args = log[i].args

C7_Witness ==
    /\ Succeeded /\ ~input.skipTokenRevoke
    /\ Len(retry.errors) > 0
    /\ \E j \in DOMAIN log :
           /\ log[j].op = "core.setSecret"
           /\ HostCalls("core.setOutput", "token") = {j + 1}
           /\ HostCalls("core.saveState", "token") = {j + 4}

\* C8: no core.info message, console.log debug line, retry report or logged
\* error ever holds an installation access token.
C8_TokenNeverLogged ==
    \A i \in DOMAIN log :
        log[i].op \in {"core.info", "console.log", "console.error", "core.setFailed"} =>
            \A tok \in Tokens : ~Mentions(log[i], tok)

C8_Witness ==
    /\ Succeeded /\ input.debug
    /\ Len(retry.errors) > 0
    /\ TokenOutputs # {}
    /\ \E i \in DOMAIN log : log[i].op = "console.log"
    /\ \E i \in DOMAIN log : log[i].op = "core.info" /\ Mentions(log[i], "Service Unavailable")

\* C9: after a successful acquisition the three outputs are set, and the token
\* and its expiry are saved to state exactly when skipTokenRevoke is false;
\* nothing is ever saved otherwise.
C9_StateSavedUnlessSkipped ==
    LET saved == { i \in DOMAIN log : log[i].op = "core.saveState" }
    IN  /\ Succeeded =>
               /\ Cardinality(HostCalls("core.setOutput", "token")) = 1
               /\ Cardinality(HostCalls("core.setOutput", "installation-id")) = 1
               /\ Cardinality(HostCalls("core.setOutput", "app-slug")) = 1
               /\ ~input.skipTokenRevoke =>
                      /\ Cardinality(saved) = 2
                      /\ \E i \in HostCalls("core.saveState", "token") :
                             log[i].args = <<Text(result.authentication[1].token)>>
                      /\ \E i \in HostCalls("core.saveState", "expiresAt") :
                             log[i].args = <<Text(result.authentication[1].expiresAt)>>
               /\ input.skipTokenRevoke => saved = {}
        /\ ~Succeeded => saved = {}

C9_Witness ==
    /\ Succeeded /\ input.skipTokenRevoke
    /\ TokenOutputs # {}
    /\ HostCalls("core.saveState", "token") = {}

\* C10: a run that reached main() and ended either set the three outputs and
\* reported no failure, or reported one failure, with the message of the
\* failure main() rejected with, and set no output and saved no state; until
\* it ends nothing is reported or emitted.
C10_OneOutcome ==
    MainStarted =>
        LET outputs == { i \in DOMAIN log : log[i].op = "core.setOutput" }
            saved == { i \in DOMAIN log : log[i].op = "core.saveState" }
            failures == { i \in DOMAIN log : log[i].op = "core.setFailed" }
            caught == { i \in DOMAIN log : log[i].op = "console.error" }
        IN  /\ pc = "done" => (Succeeded \/ Failed)
            /\ Succeeded =>
                   /\ { log[i].text : i \in outputs } = {"token", "installation-id", "app-slug"}
                   /\ failures = {} /\ caught = {}
                   /\ result.raised = Undefined
            /\ Failed =>
                   /\ Cardinality(failures) = 1 /\ Cardinality(caught) = 1
                   /\ result.raised # Undefined
                   /\ \A i \in failures : log[i].args = <<Text(result.raised[1].message)>>
                   /\ outputs = {} /\ saved = {}
                   /\ result.authentication = Undefined
            /\ pc # "done" => (outputs = {} /\ saved = {} /\ failures = {} /\ caught = {})

C10_Witness ==
    /\ Failed /\ scope.path = "direct"
    /\ result.raised # Undefined /\ result.raised[1].stage = "sign"
    /\ Cardinality({ i \in DOMAIN log : log[i].op = "core.setFailed" }) = 1

----------------------------------------------------------------------------
(* The signing configuration.                                              *)

InvalidSigningInputs == input.privateKey = input.awsKmsArn

\* C11: when neither or both of private-key and aws-kms-arn are provided, the
\* run ends with no auth function constructed, main() not started and no Sign
\* command or REST call issued, and the failure is reported through the
\* outermost boundary: its message is passed to core.setFailed once and the
\* run's outcome is the failure outcome.
C11_ConfigFailureIsReported ==
    (InvalidSigningInputs /\ pc = "done") =>
        /\ kms.clients = 0 /\ kms.signs = 0
        /\ authCalls = <<>> /\ net = <<>>
        /\ scope.path = "none"
        /\ result.raised # Undefined /\ result.raised[1].stage = "config"
        /\ Failed
        /\ Cardinality(HostCalls("core.setFailed", "message")) = 1
        /\ \A i \in HostCalls("core.setFailed", "message") :
               log[i].args = <<Text(result.raised[1].message)>>

----------------------------------------------------------------------------
(* Signing failures and the retry.                                         *)

\* The k-th failed attempt ended the retry: no attempt followed it and main()
\* rejected with that very failure.
EndedWith(k) ==
    /\ k = Len(retry.errors) /\ retry.attempt = k
    /\ Failed /\ result.raised = Some(retry.errors[k])

\* C12: a signing failure is never retried, on any path: the attempt it failed
\* is the last one and main() rejects with that failure.
C12_SigningFailureNeverRetried ==
    MainStarted =>
        \A k \in DOMAIN retry.errors :
            retry.errors[k].stage = "sign" => EndedWith(k)

\* C12, amended: on the repository path a signing failure ends the retry and is
\* the failure main() rejects with, and on the direct path the one Sign command
\* that failed ends the run with that failure; on the owner path, which passes
\* no predicate, a signing failure is retried like any other: another attempt
\* follows each of the first Retries failures, and the failure after those is
\* the last.
C12_SigningFailureRetriedOnOwnerPathOnly ==
    MainStarted =>
        /\ scope.path = "repository" =>
               \A k \in DOMAIN retry.errors :
                   retry.errors[k].stage = "sign" => EndedWith(k)
        /\ (scope.path = "direct" /\ pc = "done" /\ kms.signs > 0 /\ Exchanges = {}) =>
               /\ Failed /\ kms.signs = 1 /\ retry.attempt = 0
               /\ result.raised[1].stage = "sign"
        /\ scope.path = "owner" =>
               \A k \in DOMAIN retry.errors :
                   retry.errors[k].stage = "sign" =>
                       IF k <= Retries
                       THEN retry.attempt > k \/ (retry.attempt = k /\ pc = "backoff")
                       ELSE /\ k = Len(retry.errors) /\ retry.attempt = k /\ Failed
                            /\ result.raised = Some(MainError(retry.errors))

C12_Witness ==
    /\ scope.path = "repository" /\ Failed
    /\ Len(retry.errors) = 2
    /\ retry.errors[1].stage = "lookup" /\ retry.errors[2].stage = "sign"
    /\ result.raised = Some(retry.errors[2])

----------------------------------------------------------------------------
(* The unit of the two retried paths: lookup, then exchange.               *)

Retried == scope.path \in {"repository", "owner"}

AwaitingExchange == pc \in {"sign", "rest"} /\ pending.route = EXCHANGE

\* C13: on the repository and owner paths an access-token request is made only
\* after the lookup of the same attempt was answered, and names the installation
\* id of that answer; every attempt starts with its own lookup; a successful
\* run's installation-id and app-slug outputs are those of the successful
\* attempt's lookup and its token output is the token auth returned for it.
C13_ExchangeFollowsOwnLookup ==
    (MainStarted /\ Retried) =>
        /\ AwaitingExchange =>
               /\ lookupData # Undefined
               /\ pending.args.installation_id = lookupData[1].id
               /\ authCalls[Len(authCalls)].installationId = lookupData[1].id
        /\ LET lookups == Lookups
               exchanges == Exchanges
           IN  /\ \A i \in exchanges :
                      \E j \in lookups :
                          /\ j < i /\ i - j <= 2
                          /\ \A k \in (j + 1)..(i - 1) : net[k].route = KMS_SIGN
               /\ Cardinality(exchanges) <= Len(authCalls)
               /\ Len(authCalls) <= Cardinality(lookups)
               /\ Cardinality(lookups) <= retry.attempt
               /\ (~input.awsKmsArn) => Cardinality(lookups) = retry.attempt
        /\ Succeeded =>
               /\ lookupData # Undefined
               /\ net[Len(net)].route = EXCHANGE
               /\ net[Len(net)].args.installation_id = lookupData[1].id
               /\ \A i \in HostCalls("core.setOutput", "installation-id") :
                      log[i].args = <<Num(lookupData[1].id)>>
               /\ \A i \in HostCalls("core.setOutput", "app-slug") :
                      log[i].args = <<Text(lookupData[1].app_slug)>>
               /\ \A i \in HostCalls("core.setOutput", "token") :
                      log[i].args = <<Text(result.authentication[1].token)>>

C13_Witness ==
    /\ Succeeded /\ scope.path = "repository"
    /\ retry.attempt = 2 /\ Len(authCalls) = 2
    /\ authCalls[1].installationId = 7 /\ lookupData[1].id = 8
    /\ HostCalls("core.setOutput", "installation-id") # {}

----------------------------------------------------------------------------
(* Assertions of the KMS backend.                                          *)

RestCalls == Lookups \cup Exchanges
Signs == { i \in DOMAIN net : net[i].route = KMS_SIGN }

\* C14: with the KMS backend every REST call, lookup or access-token request,
\* directly follows a Sign command of its own, and its bearer is the assertion
\* built from that command; every Sign command builds another assertion (the
\* serials of n commands are n different ones), and no two REST calls of a run,
\* in the same attempt or in different ones, carry the same assertion.
C14_FreshAssertionPerCall ==
    (MainStarted /\ input.awsKmsArn) =>
        LET calls == RestCalls
            signs == Signs
        IN  /\ \A i \in calls :
                   /\ i > 1 /\ net[i - 1].route = KMS_SIGN
                   /\ net[i].bearer = Some(KmsJwt(net[i - 1].args.serial))
            /\ kms.signs = Cardinality(signs)
            /\ { net[i].args.serial : i \in signs } = 1..kms.signs
            /\ Cardinality({ net[i].bearer : i \in calls }) = Cardinality(calls)
            /\ Cardinality(calls) <= kms.signs

C14_Witness ==
    /\ input.awsKmsArn /\ Succeeded /\ retry.attempt = 2
    /\ kms.signs = 4 /\ Len(net) = 8
    /\ net[2].bearer = Some(KmsJwt(1)) /\ net[4].bearer = Some(KmsJwt(2))
    /\ net[6].bearer = Some(KmsJwt(3)) /\ net[8].bearer = Some(KmsJwt(4))

----------------------------------------------------------------------------
(* The KMS client.                                                         *)

\* C15: the KMS client is constructed by the first Sign command and not
\* before: while no Sign command was sent there is no client, once one was
\* sent there is exactly one, whatever the number of Sign commands.
C15_ClientConstructedByFirstSign ==
    /\ kms.signs = 0 => kms.clients = 0
    /\ kms.signs > 0 => kms.clients = 1

----------------------------------------------------------------------------
(* The KMS auth function on its own: called once for an installation token,*)
(* as main()'s installation-id branch calls it, with any options.          *)

AuthOptions ==
    [ installationId  : {0, NaN, 7},
      repositoryNames : {Undefined} \cup
                        { Some(SubSeq(RepositoryList, 1, k)) : k \in 0..MaxRepos },
      permissions     : {Undefined, Some({}), Some({"issues:write"})} ]

AuthInit ==
    /\ Init
    /\ input.awsKmsArn /\ ~input.privateKey
    /\ input.owner = <<>> /\ input.repositories = <<>>
    /\ input.installationId = <<>> /\ input.permissions = Undefined
    /\ ~input.skipTokenRevoke

\* createKmsAppAuth({...}), then auth({type: "installation", ...opts}).
AuthCall ==
    /\ pc = "entry"
    /\ \E opts \in AuthOptions :
           Becomes(AuthInstallation(input,
                       [cur EXCEPT !.kms.clients = @ + 1,
                                   !.scope.path = "direct",
                                   !.result.installationId = Some(opts.installationId)],
                       opts))

AuthNext == AuthCall \/ KmsSignReturn \/ ExchangeReturn

AuthSpec == AuthInit /\ [][AuthNext]_vars

\* C16: the body of the KMS auth function's access-token request has the
\* repositories key exactly when a non-empty list of names was passed, and then
\* that list, and the permissions key exactly when a non-empty mapping was
\* passed, and then that mapping: no mapping, or an empty one, gives no key.
C16_BodyKeysOnlyForNonEmpty ==
    (pc = "rest" /\ pending.route = EXCHANGE) =>
        LET opts == authCalls[Len(authCalls)]
            body == pending.args
            names == opts.repositoryNames # Undefined /\ opts.repositoryNames[1] # <<>>
            mapping == opts.permissions # Undefined /\ opts.permissions[1] # {}
        IN  /\ body.repositories # Undefined <=> names
            /\ names => body.repositories = opts.repositoryNames
            /\ body.permissions # Undefined <=> mapping
            /\ mapping => body.permissions = opts.permissions

----------------------------------------------------------------------------
(* The installation id auth requires.                                      *)

\* C17: with the KMS backend, a call of auth for an installation token whose
\* installationId is zero or not a number, as the installation-id input "0" or
\* a non-numeric one gives it, fails with the error "installationId is
\* required for installation authentication" with no Sign command and no REST
\* call issued by the run, and is not retried: it is the only call of auth and
\* main() rejects with that error.
C17_MissingInstallationIdFailsBeforeSigning ==
    (MainStarted /\ input.awsKmsArn) =>
        \A k \in DOMAIN authCalls :
            ~Truthy(authCalls[k].installationId) =>
                /\ k = 1 /\ Len(authCalls) = 1
                /\ kms.signs = 0 /\ net = <<>>
                /\ retry.attempt = 0 /\ retry.errors = <<>>
                /\ Failed
                /\ result.raised[1].stage = "auth"
                /\ result.raised[1].status = Undefined
                /\ result.raised[1].message =
                       "installationId is required for installation authentication"

C17_Witness ==
    /\ input.awsKmsArn /\ input.installationId = <<"z">>
    /\ Failed /\ Len(authCalls) = 1 /\ authCalls[1].installationId = NaN
    /\ result.raised[1].stage = "auth" /\ net = <<>>

----------------------------------------------------------------------------
(* The repository path: what is looked up and what is exchanged.           *)

\* C18: on the repository path every lookup is the repository lookup of the
\* first name of the list under the resolved owner, there is at most one
\* lookup per attempt, and every call of auth and every access-token request
\* is scoped with the complete list.
C18_FirstRepositoryProbedAllScoped ==
    (MainStarted /\ scope.path = "repository") =>
        /\ Len(scope.parsedRepositoryNames) > 0
        /\ Len(input.repositories) > 0 => scope.parsedRepositoryNames = input.repositories
        /\ \A i \in Lookups :
               /\ net[i].route = LOOKUP_REPO
               /\ net[i].args = [owner |-> scope.parsedOwner,
                                 repo |-> scope.parsedRepositoryNames[1]]
        /\ Cardinality(Lookups) <= retry.attempt
        /\ \A k \in DOMAIN authCalls :
               authCalls[k].repositoryNames = Some(scope.parsedRepositoryNames)
        /\ \A i \in Exchanges :
               net[i].args.repositories = Some(scope.parsedRepositoryNames)

C18_Witness ==
    /\ scope.path = "repository" /\ Succeeded
    /\ scope.parsedRepositoryNames = <<Chars("a"), Chars("b")>>
    /\ retry.attempt = 2
    /\ Cardinality(Lookups) = 2 /\ Cardinality(Exchanges) = 1
    /\ net[Len(net)].args.repositories = Some(<<Chars("a"), Chars("b")>>)

----------------------------------------------------------------------------
(* The reports of failed attempts.                                         *)

IsReport(entry) ==
    /\ entry.op = "core.info"
    /\ entry.text \in {"Failed to create token for repositories (attempt): message",
                       "Failed to create token for owner (attempt): message"}

Reports == SelectSeq(log, IsReport)

\* The attempts that have failed so far: all those started, but the one under
\* way or the one that succeeded.
FailedAttempts ==
    IF pc \in {"sign", "rest"} \/ Succeeded THEN retry.attempt - 1 ELSE retry.attempt

\* C19: on the repository and owner paths there is one report per failed
\* attempt, in order, the k-th carrying the attempt number k, counted from 1,
\* and the message of the k-th failure: also for a failure that ends the retry
\* because the predicate refuses it and for the last failure when the retries
\* are used up; an attempt that succeeds is not reported.
C19_OneReportPerFailedAttempt ==
    (MainStarted /\ Retried) =>
        LET reports == Reports
        IN  /\ Len(reports) = FailedAttempts
            /\ Len(retry.errors) = FailedAttempts
            /\ \A k \in DOMAIN reports :
                   LET args == reports[k].args
                   IN  /\ Len(args) >= 2
                       /\ args[Len(args) - 1] = Num(k)
                       /\ args[Len(args)] = Text(retry.errors[k].message)
                       /\ retry.errors[k].at = k

C19_Witness ==
    /\ scope.path = "repository" /\ Failed
    /\ Len(retry.errors) = 2
    /\ retry.errors[1].status = Some(503) /\ retry.errors[2].status = Some(404)
    /\ Len(Reports) = 2
    /\ Reports[2].args[Len(Reports[2].args) - 1] = Num(2)

----------------------------------------------------------------------------
(* The installation-id branch and the retry.                               *)

\* C20: on the installation-id branch auth is called once and at most one
\* access-token request is made, whatever its outcome: no attempt is counted,
\* no back-off is entered and no failed attempt is reported, and a failed
\* request, of whatever status, is at once the failure main() rejects with.
C20_DirectExchangeIsNotRetried ==
    (MainStarted /\ scope.path = "direct") =>
        /\ Len(authCalls) = 1
        /\ Lookups = {} /\ Cardinality(Exchanges) <= 1
        /\ kms.signs <= 1
        /\ retry.attempt = 0 /\ retry.errors = <<>> /\ retry.rejected = Undefined
        /\ pc # "backoff"
        /\ Reports = <<>>
        /\ pc = "done" => (Succeeded \/ Failed)
        /\ (Failed /\ Exchanges # {}) =>
               /\ result.raised[1].stage = "exchange"
               /\ result.raised[1].status # Undefined
               /\ \A i \in HostCalls("core.setFailed", "message") :
                      log[i].args = <<Text(result.raised[1].message)>>

C20_Witness ==
    /\ scope.path = "direct" /\ Failed
    /\ Cardinality(Exchanges) = 1
    /\ result.raised[1].stage = "exchange" /\ result.raised[1].status = Some(503)
    /\ Reports = <<>>

====
